---------------------------- MODULE Spec2Model ----------------------------
(***************************************************************************)
(* Git-synchronised mutation pipeline of the blog API server:              *)
(*   file_lock.py    FileLock (fcntl.flock), the module-global _git_lock   *)
(*                   and the git_lock() context manager                    *)
(*   git_handler.py  GitHandler: get_status, sync_from_remote,             *)
(*                   commit_and_push                                       *)
(*   blog_manager.py BlogManager: create_post, update_post, delete_post    *)
(*                                                                         *)
(* A worker is one thread of control.  procOf maps it to its OS process;   *)
(* the workers of one process share that process's descriptor table and    *)
(* its module-global FileLock object (_fd, _acquired).  All processes      *)
(* share one lock file and one checkout.                                   *)
(*                                                                         *)
(* flock(2) locks belong to an open file description.  Every os.open()     *)
(* creates a new description, so two descriptors obtained by two open()    *)
(* calls conflict with each other even inside one process, and closing    *)
(* the descriptor of a description drops the lock it holds.                *)
(*                                                                         *)
(* Time is counted in ticks of half a poll interval and passes only in     *)
(* time.sleep(0.1); every other step takes no time.                        *)
(***************************************************************************)
EXTENDS Integers, Sequences, FiniteSets, TLC

\* ------------------------------------------------------------------ bounds
NumWorkers == 2
MaxFd == 3
MaxTimeout == 2
MaxWrites == 2
NumFiles == 2
\* the timeout git_lock() waits (60.0 s by default), cut down to ticks
GitLockTimeout == 2

\* ------------------------------------------------------- program constants
\* time.sleep(0.1): one poll interval, in ticks
PollTicks == 2

Workers == 1..NumWorkers
Procs == 1..NumWorkers
Fds == 1..MaxFd
Files == 1..NumFiles
\* the value None of FileLock._fd, and "no descriptor" of the local fd
NoFd == 0
\* nobody holds the flock
NoOwner == <<0, 0>>

VARIABLES
    procOf,      \* worker -> OS process
    pc,          \* worker -> position in the code
    op,          \* worker -> public operation in progress
    nested,      \* worker -> inside the commit_and_push called by a post operation
    fd,          \* worker -> acquire()'s local fd
    elapsed,     \* worker -> time.time() - start_time of the running acquire()
    timeout,     \* worker -> timeout argument of the running acquire()
    lockFd,      \* process -> FileLock._fd of its _git_lock object
    acquired,    \* process -> FileLock._acquired
    lockFile,    \* the lock file exists on disk
    openFds,     \* process -> open descriptors on the lock file
    flockOwner,  \* <<process, fd>> of the description holding LOCK_EX
    ret,         \* worker -> what the last acquire() returned
    result,      \* worker -> result dictionary the body of the with-block returned
    exc,         \* worker -> exception propagating out of the operation
    denied,      \* worker -> git_lock() calls of this operation that raised TimeoutError
    files,       \* worker -> files argument of the running commit_and_push
    addIdx,      \* worker -> position of the staging loop in files
    status,      \* worker -> commit_and_push's local status dictionary
    ran,         \* worker -> git commands this commit_and_push / sync_from_remote ran
    post,        \* worker -> filepath of the running post operation (0: none yet)
    did,         \* worker -> what the running post operation did to the checkout
    prev,        \* worker -> how the call that the running commit_and_push repeats
                 \*           ended ("none": it repeats no call; "changed": a file
                 \*           changed while it ran)
    bad,         \* worker -> a git command of the running commit_and_push failed
                 \*           or timed out
    cloned,      \* the repository path exists (the checkout has been cloned)
    exists,      \* post files present in the working tree
    dirty,       \* paths whose working-tree state differs from the index
    staged,      \* paths whose index entry differs from HEAD
    commits,     \* local history: the paths of each commit made, oldest first
    pushed,      \* number of local commits the remote has
    writes,      \* file mutations so far
    last,        \* files argument and outcome of the latest finished commit_and_push
    clock,       \* worker -> time.time() as this worker last read it, in ticks
    started      \* workers of the contention test started so far

lockVars == <<fd, elapsed, timeout, lockFd, acquired, lockFile, openFds,
             flockOwner>>
\* what a call, a return or a raise changes
flowVars == <<pc, nested, result, exc, denied, ret>>
cpVars == <<files, addIdx, status, ran, prev, bad>>
\* arguments and locals of the running operation, and what it did so far
opVars == <<cpVars, post, did>>
repoVars == <<cloned, exists, dirty, staged, commits, pushed, writes, last>>
\* the clock of the contention test; it stands still everywhere else
timeVars == <<clock, started>>
vars == <<procOf, op, flowVars, lockVars, opVars, repoVars, timeVars>>

NoResult == [none |-> TRUE]
NoStatus == [none |-> TRUE]
NoPost == 0
\* no commit_and_push has finished since the files last changed
NoLast == [none |-> TRUE]


Proc(w) == procOf[w]

\* ---------------------------------------------------------------- OS layer
\* os.open() returns the lowest descriptor number the process has free
LowestFree(p) == CHOOSE f \in Fds \ openFds[p] : \A g \in Fds \ openFds[p] : f <= g

\* os.open() raises OSError (EMFILE) when the process has no descriptor left
CanOpen(p) == Fds \ openFds[p] # {}

\* a lock request that conflicts with nothing (LOCK_SH in place of LOCK_EX)
FlockShared(p, f) == TRUE

\* fcntl.flock(fd, LOCK_EX | LOCK_NB) is granted iff no other open file
\* description holds the lock; otherwise it raises BlockingIOError at once
FlockGranted(p, f) == flockOwner = NoOwner \/ flockOwner = <<p, f>>

\* what LOCK_UN on, or the close of, descriptor f of process p leaves of the lock
Dropped(p, f) == IF flockOwner = <<p, f>> THEN NoOwner ELSE flockOwner

\* ------------------------------------------------- control flow around the lock
PostOps == {"create", "update", "delete"}
GitOps == {"commit", "sync"} \cup PostOps

\* go on at label l of the same function
Goto(w, l) ==
    /\ pc' = [pc EXCEPT ![w] = l]
    /\ UNCHANGED <<nested, result, exc, denied, ret>>

\* first statement of the body protected by the git_lock() just entered
BodyStart(w) ==
    IF nested[w] \/ op[w] = "commit" THEN "cp_status"
    ELSE IF op[w] = "sync" THEN "sy_fetch"
    ELSE "po_validate"

\* git_lock() ignoring what acquire() returned
GitLockIgnored(w, ok) ==
    /\ pc' = [pc EXCEPT ![w] = BodyStart(w)]
    /\ denied' = [denied EXCEPT ![w] =
           IF ok THEN @ ELSE @ \cup {IF nested[w] THEN "inner" ELSE "outer"}]
    /\ UNCHANGED <<nested, result, exc>>

\* git_lock(), lines 150-156, on the value acquire() returned: run the body,
\* or raise TimeoutError.  The TimeoutError of the inner git_lock() is caught
\* by the post operation's "except Exception" (blog_manager.py:244), whose
\* own with-block then exits.
GitLockEnter(w, ok) ==
    IF ok
      THEN /\ pc' = [pc EXCEPT ![w] = BodyStart(w)]
           /\ UNCHANGED <<nested, result, exc, denied>>
    ELSE IF nested[w]
      THEN /\ pc' = [pc EXCEPT ![w] = "rel_test"]
           /\ nested' = [nested EXCEPT ![w] = FALSE]
           /\ result' = [result EXCEPT ![w] =
                  [success |-> FALSE, error |-> "Could not acquire git lock"]]
           /\ denied' = [denied EXCEPT ![w] = @ \cup {"inner"}]
           /\ UNCHANGED exc
    ELSE /\ pc' = [pc EXCEPT ![w] = "idle"]
         /\ exc' = [exc EXCEPT ![w] = "TimeoutError"]
         /\ denied' = [denied EXCEPT ![w] = @ \cup {"outer"}]
         /\ UNCHANGED <<nested, result>>

\* acquire() returns ok to its caller: a direct caller, or git_lock()
AfterAcquire(w, ok) ==
    /\ ret' = [ret EXCEPT ![w] = ok]
    /\ IF op[w] = "acquire"
         THEN /\ pc' = [pc EXCEPT ![w] = IF ok THEN "held" ELSE "idle"]
              /\ UNCHANGED <<nested, result, exc, denied>>
         ELSE GitLockEnter(w, ok)

\* release() returns normally to its caller: a direct caller, or the finally
\* clause of git_lock(), which lets the pending return or exception go on.
\* An exception leaving the inner commit_and_push is caught by the post
\* operation (blog_manager.py:244, 420, 494).
AfterRelease(w) ==
    /\ UNCHANGED <<denied, ret>>
    /\ IF nested[w]
         THEN /\ nested' = [nested EXCEPT ![w] = FALSE]
              /\ IF exc[w] # "none"
                   THEN /\ pc' = [pc EXCEPT ![w] = "rel_test"]
                        /\ result' = [result EXCEPT ![w] =
                               [success |-> FALSE, error |-> exc[w]]]
                        /\ exc' = [exc EXCEPT ![w] = "none"]
                   ELSE /\ pc' = [pc EXCEPT ![w] = "po_ret"]
                        /\ UNCHANGED <<result, exc>>
         ELSE /\ pc' = [pc EXCEPT ![w] = "idle"]
              /\ result' = [result EXCEPT ![w] = NoResult]
              /\ UNCHANGED <<nested, exc>>

\* release() raises e (not an OSError, so line 94 does not catch it); raised
\* in a finally clause, e replaces the pending return or exception
AfterReleaseRaise(w, e) ==
    /\ UNCHANGED <<denied, ret>>
    /\ IF nested[w]
         THEN /\ nested' = [nested EXCEPT ![w] = FALSE]
              /\ pc' = [pc EXCEPT ![w] = "rel_test"]
              /\ result' = [result EXCEPT ![w] = [success |-> FALSE, error |-> e]]
              /\ exc' = [exc EXCEPT ![w] = "none"]
         ELSE /\ pc' = [pc EXCEPT ![w] = "idle"]
              /\ result' = [result EXCEPT ![w] = NoResult]
              /\ exc' = [exc EXCEPT ![w] = e]
              /\ UNCHANGED nested

\* ------------------------------------------- the operation's frame ends
\* the operation's arguments and locals go with its frame
DropArgs(w) ==
    /\ files' = [files EXCEPT ![w] = <<>>]
    /\ addIdx' = [addIdx EXCEPT ![w] = 1]
    /\ status' = [status EXCEPT ![w] = NoStatus]
    /\ post' = [post EXCEPT ![w] = NoPost]

\* the operation is over once its last step has returned to the caller
OpEnds(w) == op' = IF pc'[w] = "idle" THEN [op EXCEPT ![w] = "none"] ELSE op

\* a step of acquire(): when it ends the operation (git_lock() raised
\* TimeoutError to the caller) the record of what the operation did stays
AcquireLocals(w) ==
    /\ OpEnds(w)
    /\ IF pc'[w] = "idle"
         THEN DropArgs(w) /\ UNCHANGED <<ran, did, prev, bad>>
         ELSE UNCHANGED opVars

\* a step of release(): the body of the operation's own with-block is over,
\* nothing reads its locals or the record of what it did any more; the
\* release that ends a commit_and_push called by a post operation leaves the
\* post operation's frame alone
ReleaseLocals(w) ==
    /\ OpEnds(w)
    /\ IF nested[w]
         THEN UNCHANGED opVars
         ELSE /\ DropArgs(w)
              /\ ran' = [ran EXCEPT ![w] = {}]
              /\ did' = [did EXCEPT ![w] = {}]
              /\ prev' = [prev EXCEPT ![w] = "none"]
              /\ bad' = [bad EXCEPT ![w] = FALSE]

\* --------------------------------------------------------- FileLock.acquire
\* lines 57-61: start_time = time.time(); fd = os.open(lock_file, O_CREAT | O_WRONLY),
\* which creates the lock file if it is not there
\* line 79: an OSError of os.open makes acquire() return False
AcquireOpen(w) ==
    /\ pc[w] = "acq_open"
    /\ elapsed' = [elapsed EXCEPT ![w] = 0]
    /\ IF CanOpen(Proc(w))
         THEN /\ fd' = [fd EXCEPT ![w] = LowestFree(Proc(w))]
              /\ openFds' = [openFds EXCEPT ![Proc(w)] = @ \cup {LowestFree(Proc(w))}]
              /\ lockFile' = TRUE
              /\ Goto(w, "acq_flock")
         ELSE /\ AfterAcquire(w, FALSE)
              /\ UNCHANGED <<fd, openFds, lockFile>>
    /\ UNCHANGED <<procOf, timeVars, timeout, lockFd, acquired, flockOwner, repoVars>>
    /\ AcquireLocals(w)

\* line 66: fcntl.flock(fd, LOCK_EX | LOCK_NB); BlockingIOError goes to line 71,
\* any other OSError (EBADF: the descriptor was closed meanwhile) to line 79
AcquireFlock(w) ==
    /\ pc[w] = "acq_flock"
    /\ IF fd[w] \notin openFds[Proc(w)]
         THEN /\ AfterAcquire(w, FALSE)
              /\ fd' = [fd EXCEPT ![w] = NoFd]
              /\ UNCHANGED flockOwner
       ELSE IF FlockGranted(Proc(w), fd[w])
         THEN /\ flockOwner' = <<Proc(w), fd[w]>>
              /\ Goto(w, "acq_store")
              /\ UNCHANGED fd
         ELSE /\ Goto(w, "acq_check")
              /\ UNCHANGED <<flockOwner, fd>>
    /\ UNCHANGED <<procOf, timeVars, elapsed, timeout, lockFd, acquired, lockFile, openFds, repoVars>>
    /\ AcquireLocals(w)

\* line 66 raising an OSError that is not BlockingIOError although the
\* descriptor is open (ENOLCK: the kernel has no lock record left; EIO on a
\* network file system): control goes to line 79, acquire() returns False
\* and the local fd ends with the call, the descriptor still open
AcquireFlockError(w) ==
    /\ pc[w] = "acq_flock"
    /\ fd[w] \in openFds[Proc(w)]
    /\ AfterAcquire(w, FALSE)
    /\ fd' = [fd EXCEPT ![w] = NoFd]
    /\ UNCHANGED <<procOf, timeVars, elapsed, timeout, lockFd, acquired, lockFile, openFds, flockOwner,
                   repoVars>>
    /\ AcquireLocals(w)

\* lines 67-70: self._fd = fd; self._acquired = True; return True (the locals
\* fd and start_time end with the call)
AcquireStore(w) ==
    /\ pc[w] = "acq_store"
    /\ lockFd' = [lockFd EXCEPT ![Proc(w)] = fd[w]]
    /\ acquired' = [acquired EXCEPT ![Proc(w)] = TRUE]
    /\ fd' = [fd EXCEPT ![w] = NoFd]
    /\ elapsed' = [elapsed EXCEPT ![w] = 0]
    /\ AfterAcquire(w, TRUE)
    /\ UNCHANGED <<procOf, timeVars, timeout, lockFile, openFds, flockOwner, repoVars>>
    /\ AcquireLocals(w)

\* the comparison with > in place of >=
TimedOutStrict(w) == elapsed[w] > timeout[w]

\* line 73: time.time() - start_time >= timeout
TimedOut(w) == elapsed[w] >= timeout[w]

\* a wait loop that never looks at the clock again: start_time is taken anew
\* on every round
AcquireCheckNoClock(w) ==
    /\ pc[w] = "acq_check"
    /\ Goto(w, "acq_flock")
    /\ UNCHANGED <<procOf, timeVars, lockVars, repoVars>>
    /\ AcquireLocals(w)

\* lines 71-77, after BlockingIOError: give up (close fd, return False) once
\* the timeout has elapsed, else sleep one poll interval and try again
AcquireCheck(w) ==
    /\ pc[w] = "acq_check"
    /\ IF TimedOut(w)
         THEN /\ openFds' = [openFds EXCEPT ![Proc(w)] = @ \ {fd[w]}]
              /\ flockOwner' = Dropped(Proc(w), fd[w])
              /\ fd' = [fd EXCEPT ![w] = NoFd]
              /\ AfterAcquire(w, FALSE)
              /\ UNCHANGED elapsed
         ELSE /\ elapsed' = [elapsed EXCEPT ![w] = @ + PollTicks]
              /\ Goto(w, "acq_flock")
              /\ UNCHANGED <<openFds, flockOwner, fd>>
    /\ UNCHANGED <<procOf, timeVars, timeout, lockFd, acquired, lockFile, repoVars>>
    /\ AcquireLocals(w)

\* --------------------------------------------------------- FileLock.release
\* line 85: if self._fd is not None.  The dictionary the body returned is on
\* its way to the caller from here on; only the commit_and_push called by a
\* post operation has a caller that reads it under the lock.
ReleaseTest(w) ==
    /\ pc[w] = "rel_test"
    /\ IF lockFd[Proc(w)] # NoFd
         THEN /\ pc' = [pc EXCEPT ![w] = "rel_unlock"]
              /\ result' = [result EXCEPT ![w] = IF nested[w] THEN @ ELSE NoResult]
              /\ UNCHANGED <<nested, exc, denied, ret>>
         ELSE AfterRelease(w)
    /\ UNCHANGED <<procOf, timeVars, lockVars, repoVars>>
    /\ ReleaseLocals(w)

\* line 87: fcntl.flock(self._fd, LOCK_UN).  self._fd is read again: None
\* gives TypeError, a descriptor closed meanwhile gives OSError (line 94)
ReleaseUnlock(w) ==
    /\ pc[w] = "rel_unlock"
    /\ IF lockFd[Proc(w)] = NoFd
         THEN AfterReleaseRaise(w, "TypeError") /\ UNCHANGED flockOwner
       ELSE IF lockFd[Proc(w)] \notin openFds[Proc(w)]
         THEN AfterRelease(w) /\ UNCHANGED flockOwner
       ELSE /\ flockOwner' = Dropped(Proc(w), lockFd[Proc(w)])
            /\ Goto(w, "rel_close")
    /\ UNCHANGED <<procOf, timeVars, fd, elapsed, timeout, lockFd, acquired, lockFile,
                   openFds, repoVars>>
    /\ ReleaseLocals(w)

\* line 88: os.close(self._fd), with the same re-read of self._fd
ReleaseClose(w) ==
    /\ pc[w] = "rel_close"
    /\ IF lockFd[Proc(w)] = NoFd
         THEN AfterReleaseRaise(w, "TypeError") /\ UNCHANGED <<openFds, flockOwner>>
       ELSE IF lockFd[Proc(w)] \notin openFds[Proc(w)]
         THEN AfterRelease(w) /\ UNCHANGED <<openFds, flockOwner>>
       ELSE /\ openFds' = [openFds EXCEPT ![Proc(w)] = @ \ {lockFd[Proc(w)]}]
            /\ flockOwner' = Dropped(Proc(w), lockFd[Proc(w)])
            /\ Goto(w, "rel_clear")
    /\ UNCHANGED <<procOf, timeVars, fd, elapsed, timeout, lockFd, acquired, lockFile, repoVars>>
    /\ ReleaseLocals(w)

\* a release() that removes the lock file once it has let go of it
ReleaseClearUnlink(w) ==
    /\ pc[w] = "rel_clear"
    /\ lockFd' = [lockFd EXCEPT ![Proc(w)] = NoFd]
    /\ acquired' = [acquired EXCEPT ![Proc(w)] = FALSE]
    /\ lockFile' = FALSE
    /\ AfterRelease(w)
    /\ UNCHANGED <<procOf, timeVars, fd, elapsed, timeout, openFds, flockOwner, repoVars>>
    /\ ReleaseLocals(w)

\* a release() that forgets the flag: self._fd = None only
ReleaseClearFdOnly(w) ==
    /\ pc[w] = "rel_clear"
    /\ lockFd' = [lockFd EXCEPT ![Proc(w)] = NoFd]
    /\ AfterRelease(w)
    /\ UNCHANGED <<procOf, timeVars, fd, elapsed, timeout, acquired, lockFile, openFds,
                   flockOwner, repoVars>>
    /\ ReleaseLocals(w)

\* lines 89-92: self._fd = None; self._acquired = False; the lock file stays
ReleaseClear(w) ==
    /\ pc[w] = "rel_clear"
    /\ lockFd' = [lockFd EXCEPT ![Proc(w)] = NoFd]
    /\ acquired' = [acquired EXCEPT ![Proc(w)] = FALSE]
    /\ AfterRelease(w)
    /\ UNCHANGED <<procOf, timeVars, fd, elapsed, timeout, lockFile, openFds, flockOwner,
                   repoVars>>
    /\ ReleaseLocals(w)

\* ------------------------------------------------ direct use of a FileLock
\* a public operation starts: nothing is pending from the previous one
Enter(w, o, l) ==
    /\ op' = [op EXCEPT ![w] = o]
    /\ pc' = [pc EXCEPT ![w] = l]
    /\ result' = [result EXCEPT ![w] = NoResult]
    /\ exc' = [exc EXCEPT ![w] = "none"]
    /\ denied' = [denied EXCEPT ![w] = {}]
    /\ UNCHANGED <<nested, ret>>

\* lock.acquire(timeout=T), as the workers of test_file_lock.py call it
CallAcquire(w, T) ==
    /\ pc[w] = "idle"
    /\ Enter(w, "acquire", "acq_open")
    /\ timeout' = [timeout EXCEPT ![w] = T]
    /\ UNCHANGED <<procOf, timeVars, fd, elapsed, lockFd, acquired, lockFile, openFds,
                   flockOwner, cpVars, post, did, repoVars>>

\* lock.release(): the matching release of a successful acquire ("held"),
\* or a release by a worker that holds nothing ("idle")
CallRelease(w) ==
    /\ pc[w] \in {"held", "idle"}
    /\ Enter(w, "release", "rel_test")
    /\ UNCHANGED <<procOf, timeVars, lockVars, cpVars, post, did, repoVars>>

\* a with-block without try/finally: the exception skips release()
BodyRaiseNoFinally(w) ==
    /\ pc[w] = "held"
    /\ op' = [op EXCEPT ![w] = "none"]
    /\ pc' = [pc EXCEPT ![w] = "idle"]
    /\ exc' = [exc EXCEPT ![w] = "BodyError"]
    /\ result' = [result EXCEPT ![w] = NoResult]
    /\ denied' = [denied EXCEPT ![w] = {}]
    /\ UNCHANGED <<procOf, timeVars, nested, ret, lockVars, opVars, repoVars>>

\* lines 102-105 (__exit__) and 118-121 (acquire_context): the body of the
\* with-block raises; release() runs before the exception goes on
BodyRaise(w) ==
    /\ pc[w] = "held"
    /\ op' = [op EXCEPT ![w] = "release"]
    /\ pc' = [pc EXCEPT ![w] = "rel_test"]
    /\ exc' = [exc EXCEPT ![w] = "BodyError"]
    /\ result' = [result EXCEPT ![w] = NoResult]
    /\ denied' = [denied EXCEPT ![w] = {}]
    /\ UNCHANGED <<procOf, timeVars, nested, ret, lockVars, opVars, repoVars>>

\* ------------------------------------------------------ GitHandler._run_git
\* what a git command can do: exit 0, exit non-zero, or exceed the 60 s
\* timeout of subprocess.run
Outcomes == {"ok", "fail", "timeout"}

\* _run_git without its except clauses for the timeout: the caller gets an
\* ordinary result for a command that was killed
RunGitLenient(o) ==
    CASE o = "ok"      -> [code |-> 0, stderr |-> ""]
      [] o = "fail"    -> [code |-> 1, stderr |-> ""]
      [] o = "timeout" -> [code |-> 0, stderr |-> ""]
      [] o = "error"   -> [code |-> -1, stderr |-> "launch error"]

\* lines 42-88: (returncode, stderr) of a command with outcome o; a timeout
\* becomes the sentinel -1 with a synthetic message, any other exception of
\* subprocess.run ("error": git or the working directory is missing) the
\* sentinel -1 with the exception's text.  A failing command may leave
\* stderr empty.
RunGit(o) ==
    CASE o = "ok"      -> [code |-> 0, stderr |-> ""]
      [] o = "fail"    -> [code |-> 1, stderr |-> ""]
      [] o = "timeout" -> [code |-> -1, stderr |-> "Git command timed out"]
      [] o = "error"   -> [code |-> -1, stderr |-> "launch error"]

\* the command changed the repository: it exited 0, or it was killed at the
\* timeout after it had done its work (eff)
Applied(o, eff) == o = "ok" \/ (o = "timeout" /\ eff)

\* the body of a with git_lock() block returns r / raises e: the finally
\* clause of git_lock() runs next
Return(w, r) ==
    /\ pc' = [pc EXCEPT ![w] = "rel_test"]
    /\ result' = [result EXCEPT ![w] = r]
    /\ UNCHANGED <<nested, exc, denied, ret>>

\* an exception leaving a with-block whose context manager has no finally
RaiseUnprotected(w, e) ==
    /\ pc' = [pc EXCEPT ![w] = "idle"]
    /\ exc' = [exc EXCEPT ![w] = e]
    /\ UNCHANGED <<nested, result, denied, ret>>

Raise(w, e) ==
    /\ pc' = [pc EXCEPT ![w] = "rel_test"]
    /\ exc' = [exc EXCEPT ![w] = e]
    /\ UNCHANGED <<nested, result, denied, ret>>

\* a command started in this checkout: without the repository path
\* subprocess.run(cwd=repo_path) raises before git runs
Launches(o) == cloned \/ o = "error"

\* ---------------------------------- GitHandler.pull / clone / ensure_repo
\* lines 145-173: pull() returns True or False
PullReturn(o) == IF RunGit(o).code = 0 THEN "True" ELSE "False"

\* lines 102-143: clone() returns True iff git clone exited 0; a timeout and
\* any other exception give False
Clone(o) == o = "ok"

\* blog_manager.py:712, 73-90: the module creates BlogManager(), whose
\* _ensure_ready calls ensure_repo() unless the content directory exists
\* (content), ignoring what it returns
Boot(w, content) ==
    /\ pc[w] = "boot"
    /\ content => cloned /\ exists # {}
    /\ op' = [op EXCEPT ![w] = "boot"]
    /\ Goto(w, IF content THEN "ls_pull" ELSE "en_test")
    /\ UNCHANGED <<procOf, timeVars, lockVars, opVars, repoVars>>

\* line 97: if self.repo_path.exists()
EnsureTest(w) ==
    /\ pc[w] = "en_test"
    /\ Goto(w, IF cloned THEN "en_pull" ELSE "en_clone")
    /\ UNCHANGED <<procOf, timeVars, op, lockVars, opVars, repoVars>>

\* line 98: return self.pull() is not None
EnsurePull(w, o) ==
    /\ pc[w] = "en_pull"
    /\ Launches(o)
    /\ ran' = [ran EXCEPT ![w] = {"pull"}]
    /\ bad' = [bad EXCEPT ![w] = o # "ok"]
    /\ pc' = [pc EXCEPT ![w] = "en_ret"]
    /\ result' = [result EXCEPT ![w] = [value |-> PullReturn(o) # "None"]]
    /\ UNCHANGED <<procOf, timeVars, op, nested, exc, denied, ret, lockVars, files, addIdx,
                   status, prev, post, did, repoVars>>

\* line 100: return self.clone().  git clone refuses a path that exists
\* (another process has cloned meanwhile); killed at its 120 s timeout it
\* may have created the checkout already (eff).
EnsureClone(w, o, eff) ==
    /\ pc[w] = "en_clone"
    /\ cloned => o # "ok"
    /\ ran' = [ran EXCEPT ![w] = {"clone"}]
    /\ bad' = [bad EXCEPT ![w] = o # "ok"]
    /\ pc' = [pc EXCEPT ![w] = "en_ret"]
    /\ result' = [result EXCEPT ![w] = [value |-> Clone(o)]]
    /\ IF ~cloned /\ Applied(o, eff)
         THEN cloned' = TRUE /\ exists' = {1}
         ELSE UNCHANGED <<cloned, exists>>
    /\ UNCHANGED <<procOf, timeVars, op, nested, exc, denied, ret, lockVars, files, addIdx,
                   status, prev, post, did, dirty, staged, commits, pushed, writes,
                   last>>

\* blog_manager.py:90: _ensure_ready drops the value; the module is loaded
EnsureReturn(w) ==
    /\ pc[w] = "en_ret"
    /\ pc' = [pc EXCEPT ![w] = "ls_pull"]
    /\ result' = [result EXCEPT ![w] = NoResult]
    /\ ran' = [ran EXCEPT ![w] = {}]
    /\ bad' = [bad EXCEPT ![w] = FALSE]
    /\ UNCHANGED <<procOf, timeVars, op, nested, exc, denied, ret, lockVars, files, addIdx,
                   status, prev, post, did, repoVars>>

\* main.py:46-50: the initial pull of lifespan(), its result only logged;
\* the server then takes requests
LifespanPull(w, o) ==
    /\ pc[w] = "ls_pull"
    /\ Launches(o)
    /\ pc' = [pc EXCEPT ![w] = "idle"]
    /\ op' = [op EXCEPT ![w] = "none"]
    /\ UNCHANGED <<procOf, timeVars, nested, result, exc, denied, ret, lockVars, opVars,
                   repoVars>>

\* ----------------------------------------------------- GitHandler.get_status
\* lines 175-197: the dictionary built from "git status --porcelain"
GetStatus(o) ==
    IF RunGit(o).code # 0
      THEN [error |-> RunGit(o).stderr, clean |-> FALSE]
      ELSE [clean |-> (dirty \cup staged) = {},
            changes |-> dirty \cup staged,
            change_count |-> Cardinality(dirty \cup staged)]

\* get_status() entered through git_lock(), as commit_and_push is
CallStatusLocked(w) ==
    /\ pc[w] = "idle"
    /\ Enter(w, "status", "acq_open")
    /\ timeout' = [timeout EXCEPT ![w] = GitLockTimeout]
    /\ UNCHANGED <<procOf, timeVars, fd, elapsed, lockFd, acquired, lockFile, openFds, flockOwner,
                   opVars, repoVars>>

\* main.py:398-403: the /status handler calls git_handler.get_status()
CallStatus(w) ==
    /\ pc[w] = "idle"
    /\ Enter(w, "status", "st_run")
    /\ UNCHANGED <<procOf, timeVars, lockVars, opVars, repoVars>>

\* lines 179-197: the status command runs and get_status() builds its result
StatusRun(w, o) ==
    /\ pc[w] = "st_run"
    /\ pc' = [pc EXCEPT ![w] = "st_ret"]
    /\ result' = [result EXCEPT ![w] = GetStatus(o)]
    /\ UNCHANGED <<procOf, timeVars, op, nested, exc, denied, ret, lockVars, opVars, repoVars>>

\* main.py:405-410: the handler returns the result to the client
StatusReturn(w) ==
    /\ pc[w] = "st_ret"
    /\ pc' = [pc EXCEPT ![w] = "idle"]
    /\ op' = [op EXCEPT ![w] = "none"]
    /\ result' = [result EXCEPT ![w] = NoResult]
    /\ UNCHANGED <<procOf, timeVars, nested, exc, denied, ret, lockVars, opVars, repoVars>>

\* ------------------------------------------------ GitHandler.commit_and_push
\* the files arguments a caller passes: none, one path, or all paths in order
FileArgs == {<<>>} \cup {<<f>> : f \in Files} \cup {[i \in 1..NumFiles |-> i]}

\* commit_and_push without its with git_lock() block
CallCommitUnlocked(w) ==
    /\ pc[w] = "idle"
    /\ Enter(w, "commit", "cp_status")
    /\ UNCHANGED <<procOf, timeVars, lockVars, opVars, repoVars>>

\* lines 255-264: commit_and_push(message, files) called directly
\* (auto_commit_push, BlogManager.sync_translations)
CallCommit(w) ==
    /\ pc[w] = "idle"
    /\ Enter(w, "commit", "acq_open")
    /\ timeout' = [timeout EXCEPT ![w] = GitLockTimeout]
    /\ UNCHANGED <<procOf, timeVars, fd, elapsed, lockFd, acquired, lockFile, openFds, flockOwner,
                   opVars, repoVars>>

\* how the latest finished commit_and_push ended, if it had the files
\* argument arg and no file has changed since
PrevCall(arg) ==
    IF last # NoLast /\ last.files = arg
      THEN (IF last.ok THEN "ok" ELSE "failed")
      ELSE "none"

\* this commit_and_push returns r
Finish(w, r) ==
    /\ Return(w, r)
    /\ last' = IF prev[w] = "changed" THEN NoLast
                ELSE [files |-> files[w], ok |-> r.success]

\* step 1 without the early return of line 273: a clean status goes on to
\* the staging like any other
CpStatusNoReturn(w, o, fs) ==
    /\ pc[w] = "cp_status"
    /\ ran' = [ran EXCEPT ![w] = @ \cup {"status"}]
    /\ LET arg == IF nested[w] THEN files[w] ELSE fs
       IN  /\ prev' = [prev EXCEPT ![w] = PrevCall(arg)]
           /\ bad' = [bad EXCEPT ![w] = o # "ok"]
           /\ IF "change_count" \notin DOMAIN GetStatus(o)
                THEN /\ Raise(w, "KeyError")
                     /\ last' = [files |-> arg, ok |-> FALSE]
                     /\ UNCHANGED <<status, files>>
              ELSE /\ Goto(w, "cp_add")
                   /\ status' = [status EXCEPT ![w] = GetStatus(o)]
                   /\ files' = [files EXCEPT ![w] = arg]
                   /\ UNCHANGED last
    /\ UNCHANGED <<procOf, timeVars, op, lockVars, addIdx, post, did, cloned, exists, dirty,
                   staged, commits, pushed, writes>>

\* lines 267-278, step 1: status = self.get_status(); status["clean"];
\* status['change_count'] (a missing key raises KeyError).  fs is the files
\* argument of a direct call, read from here on; the call made by a post
\* operation has passed its own.
CpStatus(w, o, fs) ==
    /\ pc[w] = "cp_status"
    /\ ran' = [ran EXCEPT ![w] = @ \cup {"status"}]
    /\ LET arg == IF nested[w] THEN files[w] ELSE fs
       IN  /\ prev' = [prev EXCEPT ![w] = PrevCall(arg)]
           /\ bad' = [bad EXCEPT ![w] = o # "ok"]
           /\ IF GetStatus(o).clean
                THEN /\ Return(w, [success |-> TRUE,
                                   message |-> "No changes to commit"])
                     /\ last' = [files |-> arg, ok |-> TRUE]
                     /\ UNCHANGED <<status, files>>
              ELSE IF "change_count" \notin DOMAIN GetStatus(o)
                THEN /\ Raise(w, "KeyError")
                     /\ last' = [files |-> arg, ok |-> FALSE]
                     /\ UNCHANGED <<status, files>>
              ELSE /\ Goto(w, "cp_add")
                   /\ status' = [status EXCEPT ![w] = GetStatus(o)]
                   /\ files' = [files EXCEPT ![w] = arg]
                   /\ UNCHANGED last
    /\ UNCHANGED <<procOf, timeVars, op, lockVars, addIdx, post, did, cloned, exists, dirty, staged,
                   commits, pushed, writes>>

\* the paths one "git add" names: the next entry of files, or content/ and
\* static/ (all post files) when no files were given
AddPaths(w) == IF files[w] = <<>> THEN Files ELSE {files[w][addIdx[w]]}

\* lines 288 and 295: the error prefix of a failed git add
AddError(w) == IF files[w] = <<>> THEN "Failed to add files: " ELSE "Failed to add file: "

\* the staging loop not looking at the exit status of git add
CpAddLenient(w, o, eff) ==
    /\ pc[w] = "cp_add"
    /\ ran' = [ran EXCEPT ![w] = @ \cup {"add"}]
    /\ IF Applied(o, eff)
         THEN /\ staged' = staged \cup (dirty \cap AddPaths(w))
              /\ dirty' = dirty \ AddPaths(w)
         ELSE UNCHANGED <<staged, dirty>>
    /\ bad' = [bad EXCEPT ![w] = @ \/ o # "ok"]
    /\ IF files[w] # <<>> /\ addIdx[w] < Len(files[w])
         THEN /\ addIdx' = [addIdx EXCEPT ![w] = @ + 1]
              /\ Goto(w, "cp_add")
         ELSE /\ Goto(w, "cp_diff")
              /\ addIdx' = [addIdx EXCEPT ![w] = 1]
    /\ UNCHANGED <<procOf, timeVars, op, lockVars, files, status, prev, post, did, cloned,
                   exists, commits, pushed, writes, last>>

\* lines 282-296, step 2: one git add
CpAdd(w, o, eff) ==
    /\ pc[w] = "cp_add"
    /\ ran' = [ran EXCEPT ![w] = @ \cup {"add"}]
    /\ IF Applied(o, eff)
         THEN /\ staged' = staged \cup (dirty \cap AddPaths(w))
              /\ dirty' = dirty \ AddPaths(w)
         ELSE UNCHANGED <<staged, dirty>>
    /\ bad' = [bad EXCEPT ![w] = @ \/ o # "ok"]
    /\ IF RunGit(o).code # 0
         THEN /\ Finish(w, [success |-> FALSE,
                            error |-> AddError(w) \o RunGit(o).stderr])
              /\ UNCHANGED addIdx
       ELSE IF files[w] # <<>> /\ addIdx[w] < Len(files[w])
         THEN /\ addIdx' = [addIdx EXCEPT ![w] = @ + 1]
              /\ Goto(w, "cp_add")
              /\ UNCHANGED last
       ELSE /\ Goto(w, "cp_diff")
            /\ addIdx' = [addIdx EXCEPT ![w] = 1]
            /\ UNCHANGED last
    /\ UNCHANGED <<procOf, timeVars, op, lockVars, files, status, prev, post, did, cloned, exists,
                   commits, pushed, writes>>

\* the staged-changes check taken as always reporting changes
DiffCodeChanged(o) == 1

\* exit status of "git diff --cached --quiet": 0 iff the index equals HEAD
DiffCode(o) == IF o = "ok" THEN (IF staged = {} THEN 0 ELSE 1) ELSE RunGit(o).code

\* the pipeline without the staged-diff probe's early return
CpDiffLenient(w, o) ==
    /\ pc[w] = "cp_diff"
    /\ ran' = [ran EXCEPT ![w] = @ \cup {"diff"}]
    /\ bad' = [bad EXCEPT ![w] = @ \/ o # "ok"]
    /\ Goto(w, "cp_commit")
    /\ UNCHANGED <<procOf, timeVars, op, lockVars, files, addIdx, status, prev, post, did,
                   cloned, exists, dirty, staged, commits, pushed, writes, last>>

\* lines 300-303, step 3
CpDiff(w, o) ==
    /\ pc[w] = "cp_diff"
    /\ ran' = [ran EXCEPT ![w] = @ \cup {"diff"}]
    /\ bad' = [bad EXCEPT ![w] = @ \/ o # "ok"]
    /\ IF DiffCode(o) = 0
         THEN Finish(w, [success |-> TRUE,
                         message |-> "No changes to commit after staging"])
         ELSE Goto(w, "cp_commit") /\ UNCHANGED last
    /\ UNCHANGED <<procOf, timeVars, op, lockVars, files, addIdx, status, prev, post, did,
                   cloned, exists, dirty, staged, commits, pushed, writes>>

\* "git commit" exits 1 when the index equals HEAD
CommitRun(o) == IF o = "ok" /\ staged = {} THEN RunGit("fail") ELSE RunGit(o)

\* the pipeline pushing whatever the commit command reported
CpCommitLenient(w, o, eff) ==
    /\ pc[w] = "cp_commit"
    /\ ran' = [ran EXCEPT ![w] = @ \cup {"commit"}]
    /\ IF Applied(o, eff) /\ staged # {}
         THEN /\ commits' = Append(commits, staged)
              /\ staged' = {}
         ELSE UNCHANGED <<commits, staged>>
    /\ bad' = [bad EXCEPT ![w] = @ \/ o # "ok"]
    /\ Goto(w, "cp_push")
    /\ UNCHANGED <<procOf, timeVars, op, lockVars, files, addIdx, status, prev, post, did,
                   cloned, exists, dirty, pushed, writes, last>>

\* lines 307-318, step 4: the commit takes the whole index
CpCommit(w, o, eff) ==
    /\ pc[w] = "cp_commit"
    /\ ran' = [ran EXCEPT ![w] = @ \cup {"commit"}]
    /\ IF Applied(o, eff) /\ staged # {}
         THEN /\ commits' = Append(commits, staged)
              /\ staged' = {}
         ELSE UNCHANGED <<commits, staged>>
    /\ bad' = [bad EXCEPT ![w] = @ \/ o # "ok"]
    /\ IF CommitRun(o).code # 0
         THEN Finish(w, [success |-> FALSE,
                         error |-> "Commit failed: " \o CommitRun(o).stderr])
         ELSE Goto(w, "cp_push") /\ UNCHANGED last
    /\ UNCHANGED <<procOf, timeVars, op, lockVars, files, addIdx, status, prev, post, did,
                   cloned, exists, dirty, pushed, writes>>

\* the error taken from stderr alone, as sync_from_remote reports a failed pull
PushFailedBare(o) ==
    [success |-> FALSE, error |-> RunGit(o).stderr,
     committed |-> TRUE, commit_message |-> "msg"]

\* the result of a failed push, lines 333-338
PushFailed(o) ==
    [success |-> FALSE, error |-> "Push failed: " \o RunGit(o).stderr,
     committed |-> TRUE, commit_message |-> "msg"]

\* lines 325-352, step 5: git push origin main sends every local commit
CpPush(w, o, eff) ==
    /\ pc[w] = "cp_push"
    /\ ran' = [ran EXCEPT ![w] = @ \cup {"push"}]
    /\ IF Applied(o, eff)
         THEN pushed' = Len(commits)
         ELSE UNCHANGED pushed
    /\ bad' = [bad EXCEPT ![w] = @ \/ o # "ok"]
    /\ IF RunGit(o).code # 0
         THEN Finish(w, PushFailed(o))
         ELSE Finish(w, [success |-> TRUE,
                         message |-> "Successfully committed and pushed",
                         commit_message |-> "msg",
                         changes |-> status[w].changes])
    /\ UNCHANGED <<procOf, timeVars, op, lockVars, files, addIdx, status, prev, post, did,
                   cloned, exists, dirty, staged, commits, writes>>

\* -------------------------------------------- GitHandler.sync_from_remote
\* lines 201-205
CallSync(w) ==
    /\ pc[w] = "idle"
    /\ Enter(w, "sync", "acq_open")
    /\ timeout' = [timeout EXCEPT ![w] = GitLockTimeout]
    /\ UNCHANGED <<procOf, timeVars, fd, elapsed, lockFd, acquired, lockFile, openFds, flockOwner,
                   opVars, repoVars>>

\* sync_from_remote pulling whatever the fetch reported
SyFetchLenient(w, o) ==
    /\ pc[w] = "sy_fetch"
    /\ ran' = [ran EXCEPT ![w] = @ \cup {"fetch"}]
    /\ Goto(w, "sy_pull")
    /\ UNCHANGED <<procOf, timeVars, op, lockVars, files, addIdx, status, prev, bad, post, did,
                   repoVars>>

\* lines 210-213: git fetch origin
SyFetch(w, o) ==
    /\ pc[w] = "sy_fetch"
    /\ ran' = [ran EXCEPT ![w] = @ \cup {"fetch"}]
    /\ IF RunGit(o).code # 0
         THEN Return(w, [success |-> FALSE,
                         error |-> "Fetch failed: " \o RunGit(o).stderr])
         ELSE Goto(w, "sy_pull")
    /\ UNCHANGED <<procOf, timeVars, op, lockVars, files, addIdx, status, prev, bad, post, did,
                   repoVars>>

\* lines 219-234: git pull origin main
SyPull(w, o) ==
    /\ pc[w] = "sy_pull"
    /\ ran' = [ran EXCEPT ![w] = @ \cup {"pull"}]
    /\ IF RunGit(o).code # 0
         THEN Return(w, [success |-> FALSE, error |-> RunGit(o).stderr,
                         output |-> ""])
         ELSE Return(w, [success |-> TRUE,
                         message |-> "Successfully synced from remote",
                         output |-> ""])
    /\ UNCHANGED <<procOf, timeVars, op, lockVars, files, addIdx, status, prev, bad, post, did,
                   repoVars>>

\* a post file changes: no commit_and_push from now on repeats an earlier
\* one, and none that has read the status already can be repeated
FilesChanged ==
    /\ last' = NoLast
    /\ prev' = [w \in Workers |->
                  IF pc[w] \in {"cp_add", "cp_diff", "cp_commit", "cp_push"}
                    THEN "changed" ELSE "none"]

\* ------------------------------------- BlogManager: create / update / delete
\* create_post calls whose file is not written yet
CreatesInFlight ==
    Cardinality({w \in Workers :
        op[w] = "create" /\ pc[w] # "idle" /\ "write" \notin did[w]})

\* blog_manager.py:153-154, 363, 442: the operation starts and enters
\* with git_lock().  Its arguments are read where the code first uses them.
CallPost(w, kind) ==
    /\ pc[w] = "idle"
    /\ writes < MaxWrites
    /\ kind = "create" => Cardinality(exists) + CreatesInFlight < NumFiles
    /\ Enter(w, kind, "acq_open")
    /\ timeout' = [timeout EXCEPT ![w] = GitLockTimeout]
    /\ writes' = writes + 1
    /\ UNCHANGED <<procOf, timeVars, fd, elapsed, lockFd, acquired, lockFile, openFds, flockOwner,
                   opVars, cloned, exists, dirty, staged, commits, pushed, last>>

\* a lookup that takes the filename as given: update and delete go on to the
\* file operation whether or not the file is there
PoValidateNoLookup(w, lang, f) ==
    /\ pc[w] = "po_validate"
    /\ IF ~lang
         THEN /\ Return(w, [success |-> FALSE, error |-> "Unsupported language"])
              /\ UNCHANGED post
       ELSE IF op[w] = "create"
         THEN /\ Goto(w, "po_pull")
              /\ UNCHANGED post
       ELSE /\ Goto(w, "po_write")
            /\ post' = [post EXCEPT ![w] = f]
    /\ UNCHANGED <<procOf, timeVars, op, lockVars, cpVars, did, repoVars>>

\* lines 158-166 (create), 366-390 (update), 445-469 (delete): the language
\* check and, for update and delete, the lookup of the file.  lang: the
\* language argument is supported; f: the filename argument.
PoValidate(w, lang, f) ==
    /\ pc[w] = "po_validate"
    /\ IF ~lang
         THEN /\ Return(w, [success |-> FALSE, error |-> "Unsupported language"])
              /\ UNCHANGED post
       ELSE IF op[w] = "create"
         THEN /\ Goto(w, "po_pull")
              /\ UNCHANGED post
       ELSE IF f \notin exists
         THEN /\ Return(w, [success |-> FALSE, error |-> "no file"])
              /\ UNCHANGED post
       ELSE /\ Goto(w, "po_write")
            /\ post' = [post EXCEPT ![w] = f]
    /\ UNCHANGED <<procOf, timeVars, op, lockVars, cpVars, did, repoVars>>

\* a create_post that lets go of the lock for its pull and takes it only
\* around the file mutation and the commit
PoPullUnlocked(w, o) ==
    /\ pc[w] = "po_pull"
    /\ o \in Outcomes
    /\ did' = [did EXCEPT ![w] = @ \cup {"pull"} \cup
                  (IF PullReturn(o) = "True" THEN {} ELSE {"pull failed"})]
    /\ flockOwner' = NoOwner
    /\ Goto(w, "po_name")
    /\ UNCHANGED <<procOf, timeVars, op, fd, elapsed, timeout, lockFd, acquired,
                   lockFile, openFds, cpVars, post, repoVars>>

\* create_post giving up when the pull did not succeed
PoPullChecked(w, o) ==
    /\ pc[w] = "po_pull"
    /\ o \in Outcomes
    /\ did' = [did EXCEPT ![w] = @ \cup {"pull"} \cup
                  (IF PullReturn(o) = "True" THEN {} ELSE {"pull failed"})]
    /\ IF PullReturn(o) = "True"
         THEN Goto(w, "po_name")
         ELSE Return(w, [success |-> FALSE, error |-> "pull failed"])
    /\ UNCHANGED <<procOf, timeVars, op, lockVars, cpVars, post, repoVars>>

\* lines 169-173: self.git.pull(), its result ignored (what pull() returned
\* is kept here as a record only)
PoPull(w, o) ==
    /\ pc[w] = "po_pull"
    /\ o \in Outcomes
    /\ did' = [did EXCEPT ![w] = @ \cup {"pull"} \cup
                  (IF PullReturn(o) = "True" THEN {} ELSE {"pull failed"})]
    /\ Goto(w, "po_name")
    /\ UNCHANGED <<procOf, timeVars, op, lockVars, cpVars, post, repoVars>>

\* lines 176-180, _generate_filename (lines 111-123): a name no file has
PoName(w) ==
    /\ pc[w] = "po_name"
    /\ \E f \in Files \ exists : post' = [post EXCEPT ![w] = f]
    /\ Goto(w, "po_write")
    /\ UNCHANGED <<procOf, timeVars, op, lockVars, cpVars, did, repoVars>>

\* the files argument of the commit_and_push the operation calls
\* (lines 223-226, 406-409, 481-483)
PostFiles(w) == IF op[w] = "delete" THEN <<>> ELSE <<post[w]>>

\* lines 198-230 (create), 392-409 (update), 471-483 (delete): the file
\* mutation, then commit_and_push if auto_push, else the return.  content:
\* update_post was given content; auto: the auto_push argument.
PoWrite(w, content, auto) ==
    /\ pc[w] = "po_write"
    /\ LET f == post[w]
           gone == op[w] = "delete" /\ f \notin exists
           mutates == op[w] # "update" \/ content
       IN  /\ IF gone \/ ~mutates
                THEN UNCHANGED <<exists, dirty, did, last, prev>>
                ELSE /\ exists' = IF op[w] = "delete" THEN exists \ {f}
                                                      ELSE exists \cup {f}
                     /\ dirty' = dirty \cup {f}
                     /\ FilesChanged
                     /\ did' = [did EXCEPT ![w] = @ \cup
                            {IF op[w] = "delete" THEN "unlink" ELSE "write"}]
           /\ IF gone
                \* unlink raises FileNotFoundError, caught at line 494
                THEN /\ Return(w, [success |-> FALSE, error |-> "FileNotFoundError"])
                     /\ UNCHANGED <<timeout, files>>
              ELSE IF auto
                THEN /\ pc' = [pc EXCEPT ![w] = "acq_open"]
                     /\ nested' = [nested EXCEPT ![w] = TRUE]
                     /\ timeout' = [timeout EXCEPT ![w] = GitLockTimeout]
                     /\ files' = [files EXCEPT ![w] = PostFiles(w)]
                     /\ UNCHANGED <<result, exc, denied, ret>>
              ELSE /\ Return(w, [success |-> TRUE])
                   /\ UNCHANGED <<timeout, files>>
    /\ UNCHANGED <<procOf, timeVars, op, fd, elapsed, lockFd, acquired, lockFile, openFds, flockOwner,
                   addIdx, status, ran, bad, post, cloned, staged, commits, pushed,
                   writes>>

\* lines 227-242, 406-418, 481-492: result["git"] = the nested result; return
PoRet(w) ==
    /\ pc[w] = "po_ret"
    /\ Return(w, [success |-> TRUE, git |-> result[w]])
    /\ UNCHANGED <<procOf, timeVars, op, lockVars, opVars, repoVars>>

\* blog_manager.py:670: sync_translations writes a translated post, outside
\* any lock, before it calls commit_and_push
WriteTranslation(f) ==
    /\ writes < MaxWrites
    /\ writes' = writes + 1
    /\ exists' = exists \cup {f}
    /\ dirty' = dirty \cup {f}
    /\ FilesChanged
    /\ UNCHANGED <<procOf, timeVars, op, flowVars, lockVars, files, addIdx, status, ran, bad,
                   post, did, cloned, staged, commits, pushed>>

\* ------------------------------------------------------------ specifications
\* module load: _git_lock = FileLock(...) in every process (file_lock.py:127,
\* lines 38-43), nothing open, nobody in an operation; the checkout is clean
\* and holds one post
InitFrames ==
    /\ op = [w \in Workers |-> "none"]
    /\ nested = [w \in Workers |-> FALSE]
    /\ fd = [w \in Workers |-> NoFd]
    /\ elapsed = [w \in Workers |-> 0]
    /\ timeout = [w \in Workers |-> 0]
    /\ lockFd = [p \in Procs |-> NoFd]
    /\ acquired = [p \in Procs |-> FALSE]
    /\ lockFile = FALSE
    /\ openFds = [p \in Procs |-> {}]
    /\ flockOwner = NoOwner
    /\ ret = [w \in Workers |-> FALSE]
    /\ result = [w \in Workers |-> NoResult]
    /\ exc = [w \in Workers |-> "none"]
    /\ denied = [w \in Workers |-> {}]
    /\ files = [w \in Workers |-> <<>>]
    /\ addIdx = [w \in Workers |-> 1]
    /\ status = [w \in Workers |-> NoStatus]
    /\ ran = [w \in Workers |-> {}]
    /\ post = [w \in Workers |-> NoPost]
    /\ did = [w \in Workers |-> {}]
    /\ prev = [w \in Workers |-> "none"]
    /\ bad = [w \in Workers |-> FALSE]
    /\ last = NoLast
    /\ staged = {}
    /\ commits = <<>>
    /\ pushed = 0
    /\ writes = 0
    /\ clock = [w \in Workers |-> 0]
    /\ started = 0

\* the servers are up and the checkout holds one post
InitState ==
    /\ InitFrames
    /\ pc = [w \in Workers |-> "idle"]
    /\ cloned = TRUE
    /\ exists = {1}
    /\ dirty = {}

\* the server processes are about to load their modules; the repository
\* path may not exist yet
InitBoot ==
    /\ InitFrames
    /\ pc = [w \in Workers |-> "boot"]
    /\ cloned \in BOOLEAN
    /\ exists = IF cloned THEN {1} ELSE {}
    /\ dirty = {}
    /\ procOf = [w \in Workers |-> w]

\* the servers are up and every post file has been changed on disk
InitChanged ==
    /\ InitFrames
    /\ pc = [w \in Workers |-> "idle"]
    /\ cloned = TRUE
    /\ exists = Files
    /\ dirty = Files
    /\ procOf = [w \in Workers |-> w]

\* every worker is a process of its own
InitProcs == InitState /\ procOf = [w \in Workers |-> w]

\* all workers are threads of one process
InitThreads == InitState /\ procOf = [w \in Workers |-> 1]

LockStep(w) ==
    \/ AcquireOpen(w)
    \/ AcquireFlock(w)
    \/ AcquireStore(w)
    \/ AcquireCheck(w)
    \/ ReleaseTest(w)
    \/ ReleaseUnlock(w)
    \/ ReleaseClose(w)
    \/ ReleaseClear(w)

\* the steps of commit_and_push after the status check
CommitTail(w) ==
    \/ \E o \in Outcomes, eff \in BOOLEAN : CpAdd(w, o, eff)
    \/ \E o \in Outcomes : CpDiff(w, o)
    \/ \E o \in Outcomes, eff \in BOOLEAN : CpCommit(w, o, eff)
    \/ \E o \in Outcomes, eff \in BOOLEAN : CpPush(w, o, eff)

CommitStep(w) ==
    \/ \E o \in Outcomes, fs \in FileArgs : CpStatus(w, o, fs)
    \/ CommitTail(w)

SyncStep(w) ==
    \/ \E o \in Outcomes : SyFetch(w, o)
    \/ \E o \in Outcomes : SyPull(w, o)

\* PoRet is not among the steps: a post operation gets to po_ret only after
\* the commit_and_push it called has returned, which needs the inner
\* git_lock() to be granted; no process ever gets it (C3)
PostStep(w) ==
    \/ \E lang \in BOOLEAN, f \in Files : PoValidate(w, lang, f)
    \/ \E o \in Outcomes : PoPull(w, o)
    \/ PoName(w)
    \/ \E content, auto \in BOOLEAN : PoWrite(w, content, auto)

\* the workers use the FileLock directly
NextLock ==
    \E w \in Workers :
        \/ \E T \in 0..MaxTimeout : CallAcquire(w, T)
        \/ CallRelease(w)
        \/ BodyRaise(w)
        \/ LockStep(w)

\* the workers use the FileLock directly, on a system where flock can fail
NextLockError ==
    \/ NextLock
    \/ \E w \in Workers : AcquireFlockError(w)

\* ------------------------------------------- the contention tests, with time
\* workers the contention test starts (10 threads, 5 processes in the tests)
NumContenders == 3

\* time.sleep(0.1) in the critical section: at most one poll interval
HoldTicks == PollTicks

\* a timeout above (N-1) * (d + one poll interval) (5.0 s in the tests)
ContendTimeout == (NumContenders - 1) * (HoldTicks + PollTicks) + 1

Max(S) == CHOOSE m \in S : \A n \in S : n <= m
Min(S) == CHOOSE m \in S : \A n \in S : m <= n

Running == {v \in Workers : pc[v] # "idle"}

\* every step is taken at the time its worker has reached, the earliest
\* worker first: what it reads is what the steps taken before that time left
Earliest(w) == \A v \in Running : clock[w] <= clock[v]

\* the time a new worker can start at: not before the steps already taken
Now == IF Running = {} THEN Max({clock[v] : v \in Workers})
       ELSE Min({clock[v] : v \in Running})

\* test_file_lock.py line 76 / 113: a worker thread or process starts and
\* calls lock.acquire(timeout=5.0); a worker slot that has finished stands
\* for a thread or process that has ended
ContendAcquire(w, at) ==
    /\ pc[w] = "idle"
    /\ started < NumContenders
    /\ at >= Now
    /\ Enter(w, "acquire", "acq_open")
    /\ timeout' = [timeout EXCEPT ![w] = ContendTimeout]
    /\ started' = started + 1
    /\ clock' = [clock EXCEPT ![w] = at]
    /\ UNCHANGED <<procOf, fd, elapsed, lockFd, acquired, lockFile, openFds,
                   flockOwner, cpVars, post, did, repoVars>>

\* file_lock.py lines 71-77 with the clock running: time.sleep(0.1) takes
\* one poll interval
ContendPoll(w) ==
    /\ pc[w] = "acq_check"
    /\ Earliest(w)
    /\ IF TimedOut(w)
         THEN /\ openFds' = [openFds EXCEPT ![Proc(w)] = @ \ {fd[w]}]
              /\ flockOwner' = Dropped(Proc(w), fd[w])
              /\ fd' = [fd EXCEPT ![w] = NoFd]
              /\ AfterAcquire(w, FALSE)
              /\ UNCHANGED <<elapsed, clock>>
         ELSE /\ elapsed' = [elapsed EXCEPT ![w] = @ + PollTicks]
              /\ clock' = [clock EXCEPT ![w] = @ + PollTicks]
              /\ Goto(w, "acq_flock")
              /\ UNCHANGED <<openFds, flockOwner, fd>>
    /\ UNCHANGED <<procOf, started, timeout, lockFd, acquired, lockFile, repoVars>>
    /\ AcquireLocals(w)

\* test_file_lock.py lines 77-82 / 114-124: the critical section takes d
\* ticks, then the finally clause calls lock.release()
ContendRelease(w, d) ==
    /\ pc[w] = "held"
    /\ Earliest(w)
    /\ Enter(w, "release", "rel_test")
    /\ clock' = [clock EXCEPT ![w] = @ + d]
    /\ UNCHANGED <<procOf, started, lockVars, cpVars, post, did, repoVars>>

\* the steps of acquire() and release() that take no time
ContendStep(w) ==
    \/ Earliest(w) /\ AcquireOpen(w)
    \/ Earliest(w) /\ AcquireFlock(w)
    \/ Earliest(w) /\ AcquireStore(w)
    \/ Earliest(w) /\ ReleaseTest(w)
    \/ Earliest(w) /\ ReleaseUnlock(w)
    \/ Earliest(w) /\ ReleaseClose(w)
    \/ Earliest(w) /\ ReleaseClear(w)

\* NumContenders workers, each acquiring, holding and releasing once
NextContend ==
    \E w \in Workers :
        \/ \E at \in {clock[v] : v \in Workers} : ContendAcquire(w, at)
        \/ ContendPoll(w)
        \/ \E d \in 0..HoldTicks : ContendRelease(w, d)
        \/ ContendStep(w)

\* the workers run the server's operations
Next ==
    \/ \E w \in Workers :
           \/ CallCommit(w)
           \/ CallSync(w)
           \/ \E kind \in PostOps : CallPost(w, kind)
           \/ LockStep(w)
           \/ CommitStep(w)
           \/ SyncStep(w)
           \/ PostStep(w)
    \/ \E f \in Files : WriteTranslation(f)

\* the workers only synchronise from the remote
NextSync ==
    \E w \in Workers : CallSync(w) \/ LockStep(w) \/ SyncStep(w)

\* the workers only commit and push what sync_translations wrote
NextCommit ==
    \/ \E w \in Workers : CallCommit(w) \/ LockStep(w) \/ CommitStep(w)
    \/ \E f \in Files : WriteTranslation(f)

\* the outcomes of a command launched in the checkout, or not launched
AllOutcomes == Outcomes \cup {"error"}

\* module load and startup of the server
BootStep(w) ==
    \/ \E content \in BOOLEAN : Boot(w, content)
    \/ EnsureTest(w)
    \/ \E o \in AllOutcomes : EnsurePull(w, o)
    \/ \E o \in AllOutcomes, eff \in BOOLEAN : EnsureClone(w, o, eff)
    \/ EnsureReturn(w)
    \/ \E o \in AllOutcomes : LifespanPull(w, o)

\* the /status handler
StatusStep(w) ==
    \/ \E o \in Outcomes : StatusRun(w, o)
    \/ StatusReturn(w)

\* the workers commit and push, and answer /status requests
NextStatus ==
    \/ NextCommit
    \/ \E w \in Workers : CallStatus(w) \/ StatusStep(w)

\* a step of worker w that runs one git command through _run_git, the
\* command having outcome o
GitStep(w, o) ==
    \/ \E fs \in FileArgs : CpStatus(w, o, fs)
    \/ \E eff \in BOOLEAN : CpAdd(w, o, eff)
    \/ CpDiff(w, o)
    \/ \E eff \in BOOLEAN : CpCommit(w, o, eff)
    \/ \E eff \in BOOLEAN : CpPush(w, o, eff)
    \/ SyFetch(w, o)
    \/ SyPull(w, o)
    \/ StatusRun(w, o)

\* the workers commit, synchronise and report the status; a command may
\* also fail to start
NextRunGit ==
    \/ \E w \in Workers :
           \/ CallCommit(w)
           \/ CallSync(w)
           \/ CallStatus(w)
           \/ StatusReturn(w)
           \/ LockStep(w)
           \/ \E o \in AllOutcomes : GitStep(w, o)
    \/ \E f \in Files : WriteTranslation(f)

\* the servers start and then answer /status requests
NextBoot ==
    \E w \in Workers :
        \/ BootStep(w)
        \/ CallStatus(w)
        \/ \E o \in AllOutcomes : Launches(o) /\ StatusRun(w, o)
        \/ StatusReturn(w)

\* the one file a process names in its commit_and_push calls
OwnFile(w) == ((w - 1) % NumFiles) + 1

\* every process commits and pushes its own file
NextOwnFile ==
    \E w \in Workers :
        \/ CallCommit(w)
        \/ LockStep(w)
        \/ \E o \in Outcomes : CpStatus(w, o, <<OwnFile(w)>>)
        \/ CommitTail(w)

\* a step of worker w inside the operation it runs
Step(w) == LockStep(w) \/ CommitStep(w) \/ SyncStep(w) \/ PostStep(w)

\* the worker whose invocations are followed to their end
Server == 1

\* _generate_filename (lines 111-123) finds a name no file has; the model
\* has NumFiles names, so a post is created only while one of them is free
CanName(kind) == kind = "create" => Files \ exists # {}

\* one server process runs the operations; every other process takes the
\* lock when it is free (one try of acquire), holds it and drops it as it
\* pleases, which is all another process's operations can do to the lock
NextBusy ==
    \/ CallCommit(Server)
    \/ CallSync(Server)
    \/ \E kind \in PostOps : CanName(kind) /\ CallPost(Server, kind)
    \/ Step(Server)
    \/ \E w \in Workers \ {Server} :
           \/ CallAcquire(w, 0)
           \/ pc[w] = "held" /\ CallRelease(w)
           \/ LockStep(w)

\* one thread of the server runs the post operations, PoRet included; every
\* other thread goes through acquire and release of the FileLock they share
NextPosts ==
    \/ \E kind \in PostOps : CanName(kind) /\ CallPost(Server, kind)
    \/ LockStep(Server)
    \/ CommitStep(Server)
    \/ PostStep(Server)
    \/ PoRet(Server)
    \/ \E w \in Workers \ {Server} :
           \/ CallAcquire(w, 0)
           \/ pc[w] = "held" /\ CallRelease(w)
           \/ LockStep(w)

\* blog_manager.py:153-154: create_post starts and enters with git_lock().
\* The calls are not counted: a create that writes uses up a name, one that
\* stops at the language check changes nothing
CallCreate(w) ==
    /\ pc[w] = "idle"
    /\ CanName("create")
    /\ Enter(w, "create", "acq_open")
    /\ timeout' = [timeout EXCEPT ![w] = GitLockTimeout]
    /\ UNCHANGED <<procOf, timeVars, fd, elapsed, lockFd, acquired, lockFile, openFds,
                   flockOwner, opVars, repoVars>>

\* the workers only create posts
NextCreate ==
    \E w \in Workers :
        \/ CallCreate(w)
        \/ LockStep(w)
        \/ PostStep(w)
        \/ CommitStep(w)
        \/ PoRet(w)

\* independent server processes sharing the checkout
Spec == InitProcs /\ [][Next]_vars
\* processes that use a FileLock directly
SpecProcs == InitProcs /\ [][NextLock]_vars
\* threads of one server process
SpecThreads == InitThreads /\ [][NextSync]_vars
\* server processes that only commit and push
SpecCommit == InitProcs /\ [][NextCommit]_vars

\* server processes that commit and push and report the status
SpecStatus == InitProcs /\ [][NextStatus]_vars

\* server processes from their start
SpecBoot == InitBoot /\ [][NextBoot]_vars

\* server processes that each commit and push one file of their own
SpecOwnFile == InitChanged /\ [][NextOwnFile]_vars

\* server processes whose git commands may fail to start
SpecRunGit == InitProcs /\ [][NextRunGit]_vars

\* server processes that only synchronise from the remote
SpecSync == InitProcs /\ [][NextSync]_vars

\* processes that use a FileLock directly, flock failing at times
SpecLockError == InitProcs /\ [][NextLockError]_vars

\* threads of one process that use the FileLock directly
SpecOneProcess == InitThreads /\ [][NextLock]_vars

\* a server process among processes that contend for the lock.  The server's
\* thread keeps running and every git command ends (subprocess.run has a
\* timeout), so a step of the server that can be taken is taken; nothing is
\* assumed of the other processes
FairSpec == InitProcs /\ [][NextBusy]_vars /\ WF_vars(Step(Server))

\* threads of one server process, one of them running the post operations
SpecPosts == InitThreads /\ [][NextPosts]_vars

\* the workers of the contention test are the threads of one process,
\* sharing its FileLock, or processes with a FileLock each
InitContend ==
    /\ InitState
    /\ procOf \in {[w \in Workers |-> 1], [w \in Workers |-> w]}

SpecContend == InitContend /\ [][NextContend]_vars

\* create_post calls from the threads of one server process or from
\* single-threaded server processes
SpecCreate == InitContend /\ [][NextCreate]_vars

\* ------------------------------------------------------------------ claims
\* code positions inside the body of a with git_lock() block
CommitLabels == {"cp_status", "cp_add", "cp_diff", "cp_commit", "cp_push"}
SyncLabels == {"sy_fetch", "sy_pull"}
PostLabels == {"po_validate", "po_pull", "po_name", "po_write", "po_ret"}
ReleaseLabels == {"rel_test", "rel_unlock", "rel_close", "rel_clear"}
AcquireLabels == {"acq_open", "acq_flock", "acq_store", "acq_check"}

\* w is between an acquire() that returned True and the matching release():
\* after a direct acquire, or in the body of a git_lock() block (a post
\* operation stays in its block while the commit_and_push it called runs)
InCritical(w) ==
    \/ pc[w] = "held"
    \/ pc[w] \in CommitLabels \cup SyncLabels \cup PostLabels
    \/ op[w] \in PostOps /\ nested[w]

\* C1: of independent processes, each with its own FileLock on the same lock
\* file, at most one at a time is between an acquire() that returned True
\* and its matching release().
C1_ProcessExclusion ==
    \A v, w \in Workers :
        (v # w /\ Proc(v) # Proc(w)) => ~(InCritical(v) /\ InCritical(w))

\* one process holds the lock while another, refused, polls for it
C1_Witness ==
    \E v, w \in Workers :
        /\ Proc(v) # Proc(w)
        /\ pc[v] = "held"
        /\ pc[w] = "acq_check"
        /\ elapsed[w] > 0

\* C2: of the threads of one process that go through git_lock(), all sharing
\* the module-global FileLock, at most one at a time is inside a git_lock()
\* body.
C2_ThreadExclusion ==
    \A v, w \in Workers :
        (v # w /\ Proc(v) = Proc(w)) => ~(InCritical(v) /\ InCritical(w))

\* C7: when the body run under the lock raises, the exception that reaches
\* the caller is the body's own and the lock is released by then: the
\* process holds no lock and no descriptor, and _fd is None.
C7_ReleasedOnException ==
    \A w \in Workers :
        (pc[w] = "idle" /\ exc[w] \notin {"none", "TimeoutError"}) =>
            /\ exc[w] \in {"BodyError", "KeyError"}
            /\ flockOwner[1] # Proc(w)
            /\ lockFd[Proc(w)] = NoFd
            /\ openFds[Proc(w)] = {}

\* the body's exception has reached the caller and another holder has
\* acquired the lock since
C7_Witness ==
    \E v, w \in Workers :
        /\ v # w
        /\ pc[w] = "idle"
        /\ exc[w] = "BodyError"
        /\ pc[v] = "held"

\* C8: acquire(timeout=T) that does not get the lock returns False with at
\* most T plus one poll interval elapsed, and it never sleeps once the
\* elapsed time has reached T.
C8_TimeoutBound ==
    \A w \in Workers :
        (pc[w] \in {"acq_flock", "acq_check"} \/ (pc[w] = "idle" /\ ~ret[w])) =>
            /\ elapsed[w] <= timeout[w] + PollTicks
            /\ elapsed[w] > 0 => elapsed[w] - PollTicks < timeout[w]
            /\ pc[w] = "acq_flock" => ENABLED AcquireFlock(w)

\* acquire() has returned False after sleeping, another process holding the lock
C8_Witness ==
    \E v, w \in Workers :
        /\ v # w
        /\ pc[w] = "idle"
        /\ ~ret[w]
        /\ elapsed[w] >= timeout[w]
        /\ elapsed[w] > 0
        /\ pc[v] = "held"

\* C3: a post operation run with auto_push while nobody else holds the git
\* lock gets the lock again for the commit_and_push it calls: the inner
\* git_lock() never times out against the lock the operation itself holds.
C3_NestedLockGranted ==
    \A w \in Workers :
        ~ /\ "inner" \in denied[w]
          /\ pc[w] = "rel_test"
          /\ flockOwner = <<Proc(w), lockFd[Proc(w)]>>

\* w has run a git command of its commit_and_push and has more to run
MidPipeline(w) == pc[w] \in CommitLabels /\ ran[w] # {}

\* C4: of two overlapping commit_and_push invocations of server processes,
\* one runs its whole sequence of git commands before the other runs its
\* first: no two are in the middle of the pipeline together.
C4_PipelinesSerialized ==
    \A v, w \in Workers : v # w => ~(MidPipeline(v) /\ MidPipeline(w))

\* one invocation is about to push while the other, refused, polls for the lock
C4_Witness ==
    \E v, w \in Workers :
        /\ v # w
        /\ pc[v] = "cp_push"
        /\ op[w] = "commit"
        /\ pc[w] = "acq_check"

\* the running commit_and_push repeats, w finishing it or about to
Repeats(w, how) == prev[w] \in how /\ pc[w] \in CommitLabels \cup {"rel_test"}

\* C5 as stated: a commit_and_push that repeats the previous call (same
\* files, no file change between) gets no commit made and returns success
\* true.  Stated for second calls whose own git commands all succeed, so
\* that no failure of the second call itself is held against the claim.
C5_SecondCallNoop ==
    \A w \in Workers :
        (Repeats(w, {"ok", "failed"}) /\ ~bad[w]) =>
            /\ pc[w] # "cp_push"
            /\ pc[w] = "rel_test" => (exc[w] = "none" /\ result[w].success)

\* C5: a commit_and_push that repeats a call which returned success true
\* (same files, no file changed since that call read the status) creates no
\* commit, and it returns success true when none of its own git commands
\* fails or times out.
C5_RepeatAfterSuccess ==
    /\ [](\A w \in Workers :
            (Repeats(w, {"ok"}) /\ pc[w] = "rel_test" /\ ~bad[w]) =>
                (exc[w] = "none" /\ result[w].success))
    /\ [][\A w \in Workers : Repeats(w, {"ok"}) => commits' = commits]_vars

\* a repeat of a successful call has staged its files again and found
\* nothing to commit, other files being modified
C5_Witness ==
    \E w \in Workers :
        /\ Repeats(w, {"ok"})
        /\ pc[w] = "rel_test"
        /\ ~bad[w]
        /\ "diff" \in ran[w]
        /\ result[w].success

\* C6: when the push fails after the commit command succeeded, the result
\* has success false, committed true and a non-empty error, and the commit
\* is in the local history.
C6_PushFailureReported ==
    \A w \in Workers :
        ("push" \in ran[w] /\ pc[w] = "rel_test") =>
            /\ Len(commits) >= 1
            /\ "success" \in DOMAIN result[w]
            /\ pushed < Len(commits) =>
                   /\ ~result[w].success
                   /\ "committed" \in DOMAIN result[w]
                   /\ result[w].committed
                   /\ result[w].error # ""

\* a push has failed without writing to stderr, the commit not on the remote
C6_Witness ==
    \E w \in Workers :
        /\ "push" \in ran[w]
        /\ pc[w] = "rel_test"
        /\ pushed < Len(commits)
        /\ "committed" \in DOMAIN result[w]
        /\ result[w].error = "Push failed: "

\* C9: a git_lock() that times out raises TimeoutError and its body never
\* runs: the operation runs no git command and changes no file.
C9_NoBodyWithoutLock ==
    \A w \in Workers :
        /\ "outer" \in denied[w] =>
               /\ pc[w] = "idle"
               /\ exc[w] = "TimeoutError"
               /\ ran[w] = {}
               /\ did[w] = {}
        /\ "inner" \in denied[w] => ran[w] = {}

\* git_lock() has raised TimeoutError to one process while another was
\* inside its own git_lock() block
C9_Witness ==
    \E v, w \in Workers :
        /\ v # w
        /\ "outer" \in denied[w]
        /\ exc[w] = "TimeoutError"
        /\ InCritical(v)

\* C10: whatever its git commands do, commit_and_push returns a result
\* dictionary and lets no exception out.
C10_ReturnsDictionary ==
    \A w \in Workers :
        (op[w] = "commit" /\ pc[w] = "rel_test") =>
            /\ exc[w] = "none"
            /\ "success" \in DOMAIN result[w]

\* C11: get_status() takes no lock and only reads.  A /status request never
\* is inside acquire() or release(); its status command can run at once in
\* every state, whoever holds the git lock; and the command leaves the lock
\* state (descriptors, flock owner, _fd, _acquired) and the checkout (working
\* tree, index, history, remote) as they were.
C11_StatusLockFree ==
    /\ [](\A w \in Workers :
            op[w] = "status" =>
                /\ pc[w] \in {"st_run", "st_ret"}
                /\ pc[w] = "st_run" => ENABLED (\E o \in Outcomes : StatusRun(w, o)))
    /\ [][\A w \in Workers :
            (\E o \in Outcomes : StatusRun(w, o)) =>
                UNCHANGED <<lockVars, exists, dirty, staged, commits, pushed>>]_vars

\* a status result reporting changes while the other process holds the lock
\* in the middle of its commit pipeline
C11_Witness ==
    \E w, v \in Workers :
        /\ pc[w] = "st_ret" /\ "change_count" \in DOMAIN result[w]
        /\ result[w].change_count > 0
        /\ MidPipeline(v) /\ flockOwner # NoOwner

\* C12: ensure_repo returns True exactly when the clone or the pull it ran
\* succeeded: whenever it is about to return, its value is True iff the one
\* command it ran (a clone if it found no repository path, a pull
\* otherwise) exited 0.
C12_EnsureRepoResult ==
    \A w \in Workers :
        pc[w] = "en_ret" =>
            /\ ran[w] \in {{"clone"}, {"pull"}}
            /\ result[w].value = ~bad[w]

\* C13: pull before mutation.  A create_post, update_post or delete_post
\* that has written or unlinked its post file has attempted a pull earlier
\* in the same execution.
C13_PullBeforeMutation ==
    \A w \in Workers :
        op[w] \in PostOps /\ did[w] \cap {"write", "unlink"} # {} =>
            "pull" \in did[w]

\* C14: a failed pull does not stop create_post.  A create_post whose pull
\* returned False never ends before it has written its post file; once the
\* file is written the post exists, and the step that wrote it has, with
\* auto_push true, called commit_and_push for that file.
C14_FailedPullGoesOn ==
    /\ [](\A w \in Workers :
            op[w] = "create" /\ "pull failed" \in did[w] =>
                /\ pc[w] \in {"po_name", "po_write"} \/ "write" \in did[w]
                /\ "write" \in did[w] => post[w] \in exists)
    /\ [][\A w \in Workers :
            op[w] = "create" /\ "pull failed" \in did[w] =>
                \A content \in BOOLEAN :
                    PoWrite(w, content, TRUE) =>
                        /\ "write" \in did'[w]
                        /\ pc'[w] = "acq_open" /\ nested'[w]
                        /\ files'[w] = <<post[w]>>]_vars

\* the pull timed out or failed, the file is written and the
\* commit_and_push called for it is at its git_lock()
C14_Witness ==
    \E w \in Workers :
        /\ op[w] = "create" /\ did[w] = {"pull", "pull failed", "write"}
        /\ nested[w] /\ pc[w] \in AcquireLabels /\ post[w] \in exists

\* C15: the git lock is released on every terminal outcome.  When a
\* commit_and_push or sync_from_remote returns or raises, however its body
\* ended (a result dictionary of any kind, or an exception), its process
\* holds no flock, has no descriptor open on the lock file, and its FileLock
\* says so (_fd None, _acquired False); and no process at rest holds the lock.
C15_ReleasedOnEveryOutcome ==
    /\ [](\A w \in Workers : pc[w] = "idle" => flockOwner[1] # Proc(w))
    /\ [][\A w \in Workers :
            op[w] \in {"commit", "sync"} /\ pc[w] # "idle" /\ pc'[w] = "idle" =>
                /\ flockOwner'[1] # Proc(w)
                /\ openFds'[Proc(w)] = {}
                /\ lockFd'[Proc(w)] = NoFd
                /\ ~acquired'[Proc(w)]]_vars

\* a commit_and_push that got the lock is about to return from release()
\* with the lock dropped already, and the other process, which was
\* polling for it, has it
C15_Witness ==
    \E w, v \in Workers :
        /\ op[w] = "commit" /\ pc[w] = "rel_clear"
        /\ op[v] = "sync" /\ flockOwner = <<Proc(v), fd[v]>>

\* C16: two processes, two different changed files, each process calling
\* commit_and_push for its own file.  Every commit that a call creates
\* contains the file named by that call and nothing else, so no commit mixes
\* the files of both callers.
C16_OwnFileCommits ==
    /\ [](\A i \in 1..Len(commits) : Cardinality(commits[i]) = 1)
    /\ [][\A w \in Workers :
            pc[w] = "cp_commit" /\ commits' # commits =>
                commits' = Append(commits, {OwnFile(w)})]_vars

\* what a caller makes of a result: a success, a failure, or nothing yet
Verdict(res) ==
    IF "success" \in DOMAIN res
      THEN (IF res.success THEN "success" ELSE "failure")
    ELSE IF "error" \in DOMAIN res THEN "failure"
    ELSE IF "clean" \in DOMAIN res THEN "success"
    ELSE "none"

\* positions a worker can be at after a git command
AfterGit ==
    {"rel_test", "cp_add", "cp_diff", "cp_commit", "cp_push", "sy_pull", "st_ret"}

AddFailures(w) ==
    {[success |-> FALSE, error |-> AddError(w) \o RunGit(o).stderr] :
        o \in {"fail", "timeout"}}

\* C18: a git add that exits non-zero ends the invocation at once.  The
\* step returns success false, stages nothing beyond the paths of that one
\* command and leaves the staging loop where it was; and an invocation that
\* returns a failed add has run no diff, commit or push.
C18_AddFailureStops ==
    /\ [](\A w \in Workers :
            pc[w] = "rel_test" /\ result[w] \in AddFailures(w) =>
                ran[w] = {"status", "add"})
    /\ [][\A w \in Workers, o \in Outcomes, eff \in BOOLEAN :
            CpAdd(w, o, eff) /\ RunGit(o).code # 0 =>
                /\ pc'[w] = "rel_test" /\ result'[w] \in AddFailures(w)
                /\ addIdx'[w] = addIdx[w]
                /\ staged' \subseteq staged \cup AddPaths(w)]_vars

\* the add of the first of two changed paths failed: the call has returned
\* the failure and the second path is not staged
C18_Witness ==
    \E w \in Workers :
        /\ pc[w] = "rel_test" /\ result[w] \in AddFailures(w)
        /\ Len(files[w]) = 2 /\ addIdx[w] = 1
        /\ files[w][2] \in dirty \ staged

\* the results of a failed git commit
CommitFailures ==
    {[success |-> FALSE, error |-> "Commit failed: " \o RunGit(o).stderr] :
        o \in {"fail", "timeout"}}

\* C19: a commit command that exits non-zero ends the invocation: the step
\* returns success false with an error and no committed flag, and an
\* invocation that returns a failed commit has issued no push (the remote is
\* as the commit step found it).
C19_CommitFailureStops ==
    /\ [](\A w \in Workers :
            pc[w] = "rel_test" /\ result[w] \in CommitFailures =>
                /\ "push" \notin ran[w]
                /\ "committed" \notin DOMAIN result[w])
    /\ [][\A w \in Workers, o \in Outcomes, eff \in BOOLEAN :
            CpCommit(w, o, eff) /\ CommitRun(o).code # 0 =>
                /\ pc'[w] = "rel_test" /\ result'[w] \in CommitFailures
                /\ pushed' = pushed]_vars

\* a commit command failed with changes staged: the call has returned the
\* failure, nothing was committed or pushed and the changes are still staged
C19_Witness ==
    \E w \in Workers :
        /\ pc[w] = "rel_test" /\ result[w] \in CommitFailures
        /\ ran[w] = {"status", "add", "diff", "commit"}
        /\ staged # {} /\ commits = <<>> /\ pushed = 0

\* the result of the no-op on a clean working tree, line 273
NoOpClean == [success |-> TRUE, message |-> "No changes to commit"]

\* C20: on a clean status commit_and_push is a no-op.  The status step that
\* finds the working tree clean returns success true with the message
\* "No changes to commit" and changes neither the working tree, the index,
\* the local history nor the remote; an invocation returning that result has
\* run the status command only.
C20_CleanNoop ==
    /\ [](\A w \in Workers :
            pc[w] = "rel_test" /\ result[w] = NoOpClean => ran[w] = {"status"})
    /\ [][\A w \in Workers, o \in Outcomes, fs \in FileArgs :
            CpStatus(w, o, fs) /\ GetStatus(o).clean =>
                /\ pc'[w] = "rel_test" /\ result'[w] = NoOpClean
                /\ UNCHANGED <<exists, dirty, staged, commits, pushed>>]_vars

\* after a commit was made and pushed, a call has found the tree clean and
\* is returning the no-op result
C20_Witness ==
    \E w \in Workers :
        /\ pc[w] = "rel_test" /\ result[w] = NoOpClean /\ op[w] = "commit"
        /\ Len(commits) = 1 /\ pushed = 1 /\ dirty \cup staged = {}

\* the result of the no-op after staging, line 303
NoOpAfterStaging ==
    [success |-> TRUE, message |-> "No changes to commit after staging"]

\* C21: no empty commit.  When the staged-diff probe exits 0 the step
\* returns success true, "No changes to commit after staging", and an
\* invocation returning that has run neither commit nor push; no commit in
\* the history is empty; and a commit step adds a commit only if the index
\* differed from HEAD when it ran, the new commit being that difference.
C21_NoEmptyCommit ==
    /\ [](/\ \A i \in 1..Len(commits) : commits[i] # {}
          /\ \A w \in Workers :
                pc[w] = "rel_test" /\ result[w] = NoOpAfterStaging =>
                    ran[w] = {"status", "add", "diff"})
    /\ [][\A w \in Workers :
            /\ \A o \in Outcomes :
                  CpDiff(w, o) /\ DiffCode(o) = 0 =>
                      /\ pc'[w] = "rel_test" /\ result'[w] = NoOpAfterStaging
                      /\ UNCHANGED <<commits, pushed>>
            /\ pc[w] = "cp_commit" /\ commits' # commits =>
                  staged # {} /\ commits' = Append(commits, staged)]_vars

\* the call named a path that had no change while another path had: the
\* probe found nothing staged and the call returns the no-op, no commit made
C21_Witness ==
    \E w \in Workers :
        /\ pc[w] = "rel_test" /\ result[w] = NoOpAfterStaging
        /\ files[w] # <<>> /\ dirty # {} /\ staged = {} /\ commits = <<>>

\* the results of a failed fetch, line 213
FetchFailures ==
    {[success |-> FALSE, error |-> "Fetch failed: " \o RunGit(o).stderr] :
        o \in {"fail", "timeout"}}

\* C22: sync_from_remote is fetch, then pull, under the git lock.  At both
\* commands the process holds the flock; the pull is reached only after a
\* fetch and before any pull; a fetch that exits non-zero returns success
\* false with "Fetch failed: ..." and no pull is run; a pull that exits
\* non-zero returns success false with the pull's stderr as the error; and
\* a result with success true comes only from a pull that exited 0.
C22_FetchThenPull ==
    /\ [](\A w \in Workers :
            /\ pc[w] \in SyncLabels =>
                  flockOwner = <<Proc(w), lockFd[Proc(w)]>> /\ acquired[Proc(w)]
            /\ pc[w] = "sy_fetch" => ran[w] = {}
            /\ pc[w] = "sy_pull" => ran[w] = {"fetch"}
            /\ op[w] = "sync" /\ pc[w] = "rel_test" /\ result[w] \in FetchFailures =>
                  ran[w] = {"fetch"}
            /\ op[w] = "sync" /\ pc[w] = "rel_test" /\ Verdict(result[w]) = "success" =>
                  ran[w] = {"fetch", "pull"})
    /\ [][\A w \in Workers, o \in Outcomes :
            /\ SyFetch(w, o) =>
                  IF RunGit(o).code # 0
                    THEN pc'[w] = "rel_test" /\ result'[w] \in FetchFailures
                    ELSE pc'[w] = "sy_pull"
            /\ SyPull(w, o) =>
                  /\ pc'[w] = "rel_test"
                  /\ result'[w].success = (RunGit(o).code = 0)
                  /\ ~result'[w].success => result'[w].error = RunGit(o).stderr]_vars

\* a sync whose fetch succeeded and whose pull timed out is returning the
\* pull's error while the other process waits for the lock
C22_Witness ==
    \E w, v \in Workers :
        /\ op[w] = "sync" /\ pc[w] = "rel_test" /\ ran[w] = {"fetch", "pull"}
        /\ Verdict(result[w]) = "failure"
        /\ result[w].error = "Git command timed out"
        /\ op[v] = "sync" /\ pc[v] = "acq_check"

\* descriptors on the lock file that process p has open and that neither
\* its FileLock nor a running acquire() refers to
Leaked(p) ==
    openFds[p] \ ({lockFd[p]} \cup {fd[w] : w \in {v \in Workers : Proc(v) = p}})

\* C23: no descriptor leak.  A descriptor opened by acquire() stays open
\* only while that call runs or while the FileLock keeps it as _fd; so after
\* an acquire() that returned False its descriptor is closed, and failed
\* acquires do not accumulate open descriptors.
C23_NoDescriptorLeak ==
    \A p \in Procs : Leaked(p) = {}

\* C24: release() is idempotent and keeps the lock file.  A release() on a
\* FileLock whose _fd is None changes nothing of the lock state and raises
\* nothing; every release() that returns leaves _fd None and _acquired
\* False with the process holding no flock, so a second release() right
\* after is that no-op; and the lock file, once an acquire() has created
\* it, is there in every later state.
C24_ReleaseIdempotent ==
    /\ [](\A p \in Procs : openFds[p] # {} \/ lockFd[p] # NoFd => lockFile)
    /\ [][/\ lockFile => lockFile'
          /\ \A w \in Workers :
                /\ ReleaseTest(w) /\ lockFd[Proc(w)] = NoFd =>
                      /\ UNCHANGED lockVars
                      /\ pc'[w] = "idle" /\ exc'[w] = exc[w]
                /\ op[w] = "release" /\ pc[w] # "idle" /\ pc'[w] = "idle" =>
                      /\ lockFd'[Proc(w)] = NoFd /\ ~acquired'[Proc(w)]
                      /\ flockOwner'[1] # Proc(w)
                      /\ exc'[w] = exc[w]]_vars

\* release() has been called on a FileLock that acquired and released
\* before and holds nothing now
C24_Witness ==
    \E w \in Workers :
        /\ op[w] = "release" /\ pc[w] = "rel_test" /\ exc[w] = "none"
        /\ lockFd[Proc(w)] = NoFd /\ openFds[Proc(w)] = {} /\ lockFile

\* C25: the lock is re-entrant within a process.  The lock attempt of an
\* acquire() is never refused because of a lock that the calling process
\* itself holds: no acquire() is waiting (after BlockingIOError) while a
\* worker of the same process is between its successful acquire() and its
\* release() and the flock is on the descriptor the FileLock keeps.
C25_ReentrantInProcess ==
    \A w, v \in Workers :
        ~ /\ pc[w] = "acq_check"
          /\ v # w /\ Proc(v) = Proc(w) /\ pc[v] = "held"
          /\ flockOwner = <<Proc(v), lockFd[Proc(v)]>>

\* C26: when N workers contend for the lock, each holding it once for at
\* most d, and the acquire timeout exceeds (N-1) * (d + one poll interval),
\* no worker times out: no acquire() reaches its timeout
C26_NoTimeoutUnderContention ==
    \A w \in Workers : ~(pc[w] = "acq_check" /\ TimedOut(w))

\* C27: every invocation of commit_and_push, sync_from_remote, create_post,
\* update_post and delete_post terminates, whatever the other processes do
\* with the lock: an operation that has started gets back to its caller
C27_Terminates == (pc[Server] # "idle") ~> (pc[Server] = "idle")

\* an invocation has ended with the TimeoutError of git_lock() while another
\* process still holds the lock
C27_Witness ==
    /\ pc[Server] = "idle"
    /\ exc[Server] = "TimeoutError"
    /\ \E w \in Workers \ {Server} : flockOwner = <<Proc(w), lockFd[Proc(w)]>>

\* w's process holds the flock through the descriptor in its FileLock
HoldsLock(w) == lockFd[Proc(w)] # NoFd /\ flockOwner = <<Proc(w), lockFd[Proc(w)]>>

\* create_post is between its pull and the commit_and_push it calls
CreateAtWork(w) == op[w] = "create" /\ pc[w] \in {"po_pull", "po_name", "po_write"}

\* C28 as stated: in the create path the pull is performed without holding
\* the git lock
C28_PullOutsideLock ==
    \A w \in Workers : (op[w] = "create" /\ pc[w] = "po_pull") => ~HoldsLock(w)

\* C28, amended: in the create path the pull is performed while holding the
\* git lock: git_lock() is entered before the pull and held across the pull
\* and the file mutation, so no other process's commit_and_push or
\* sync_from_remote runs between create_post's pull and the commit_and_push
\* create_post calls
C28_PullUnderLock ==
    /\ [](\A w \in Workers :
            CreateAtWork(w) =>
                /\ HoldsLock(w)
                /\ \A v \in Workers \ {w} :
                       pc[v] \notin CommitLabels \cup SyncLabels \cup PostLabels)
    /\ [][\A w \in Workers, o \in Outcomes :
            PoPull(w, o) => HoldsLock(w) /\ flockOwner' = flockOwner]_vars

\* create_post has pulled and is choosing its file name while another
\* process, refused the lock, waits to commit
C28_Witness ==
    \E w, v \in Workers :
        /\ op[w] = "create" /\ pc[w] = "po_name" /\ "pull" \in did[w]
        /\ op[v] = "commit" /\ pc[v] = "acq_check" /\ elapsed[v] > 0

\* C29: whenever commit_and_push returns success true, every commit the
\* pipeline created earlier in this checkout has been pushed
C29_SuccessMeansPublished ==
    \A w \in Workers :
        (pc[w] = "rel_test" /\ op[w] = "commit" /\ Verdict(result[w]) = "success")
            => pushed = Len(commits)

\* C30: with auto_push, create_post, update_post and delete_post report
\* top-level success true only if the commit_and_push they called reported
\* success: a post operation that returns success true together with the
\* result of its commit_and_push returns a successful one
C30_SuccessNeedsGitSuccess ==
    \A w \in Workers :
        ( /\ pc[w] = "rel_test" /\ op[w] \in PostOps /\ ~nested[w]
          /\ Verdict(result[w]) = "success"
          /\ "git" \in DOMAIN result[w] )
            => Verdict(result[w].git) = "success"

\* the paths a files argument names
PathsOf(fs) == {fs[i] : i \in 1..Len(fs)}

\* C31: a commit created by commit_and_push(message, files) with an explicit
\* files list contains changes only to paths of that list; what an earlier
\* invocation left staged is not swept into it
C31_CommitWithinFiles ==
    [][\A w \in Workers :
          (pc[w] = "cp_commit" /\ files[w] # <<>> /\ Len(commits') > Len(commits))
              => commits'[Len(commits')] \subseteq PathsOf(files[w])]_vars

\* C32: on a successful commit_and_push every entry of the returned changes
\* list refers to a path that is part of the commit just created
C32_ChangesAreCommitted ==
    \A w \in Workers :
        ( /\ pc[w] = "rel_test" /\ op[w] = "commit"
          /\ Verdict(result[w]) = "success"
          /\ "changes" \in DOMAIN result[w] )
            => /\ commits # <<>>
               /\ result[w].changes \subseteq commits[Len(commits)]

\* C33: create_post never overwrites an existing post: the path it has
\* chosen does not exist when it comes to write it, and create_post calls
\* in progress have pairwise distinct filenames
C33_CreateNeverOverwrites ==
    /\ \A w \in Workers :
          (op[w] = "create" /\ pc[w] = "po_write") => post[w] \notin exists
    /\ \A w, v \in Workers :
          (w # v /\ op[w] = "create" /\ op[v] = "create" /\ post[w] # NoPost)
              => post[w] # post[v]

\* what update_post and delete_post return for a bad request
Rejected ==
    {[success |-> FALSE, error |-> "Unsupported language"],
     [success |-> FALSE, error |-> "no file"]}

\* C34: update_post and delete_post on a filename that exists in no language
\* directory, or with an unsupported language, return success false and
\* leave everything unchanged: the lookup step returns the failure without
\* touching the working tree, the index, the history or the remote; the
\* invocation has written or removed no file and run no git command; and
\* when it is back at its caller its process holds no lock
C34_BadRequestChangesNothing ==
    /\ [](\A w \in Workers :
            (pc[w] = "rel_test" /\ op[w] \in {"update", "delete"}
                /\ result[w] \in Rejected)
              => did[w] = {} /\ ran[w] = {} /\ HoldsLock(w))
    /\ [][\A w \in Workers, lang \in BOOLEAN, f \in Files :
            (PoValidate(w, lang, f) /\ op[w] \in {"update", "delete"}
                /\ (~lang \/ f \notin exists))
              => /\ pc'[w] = "rel_test"
                 /\ result'[w] \in Rejected
                 /\ UNCHANGED repoVars]_vars
    /\ [][\A w \in Workers :
            (op[w] \in {"update", "delete"} /\ pc[w] # "idle" /\ pc'[w] = "idle")
              => /\ lockFd'[Proc(w)] = NoFd
                 /\ flockOwner' = NoOwner \/ flockOwner'[1] # Proc(w)]_vars

\* update_post or delete_post has found no such file and is about to leave
\* its with-block
C34_Witness ==
    \E w \in Workers :
        /\ pc[w] = "rel_test" /\ op[w] \in {"update", "delete"}
        /\ result[w] = [success |-> FALSE, error |-> "no file"]

\* the FileLock object of process p holds the OS lock on an open descriptor
HoldsOsLock(p) ==
    /\ lockFd[p] \in openFds[p]
    /\ flockOwner = <<p, lockFd[p]>>

\* _acquired, _fd is not None and holding the OS lock say the same
FactsAgree(p) ==
    /\ acquired[p] <=> lockFd[p] # NoFd
    /\ acquired[p] <=> HoldsOsLock(p)

\* w is inside acquire() or release()
InLockCall(w) == pc[w] \in AcquireLabels \cup ReleaseLabels

\* C35: for a FileLock used by a single thread, after every acquire() and
\* release() the three facts agree (_acquired, _fd is not None, the object
\* holds the OS lock on an open descriptor): they agree whenever the thread
\* is outside the two calls, they are all true after an acquire() that
\* returned True and all false after a release(); acquire() touches _fd and
\* _acquired only in the store of its success path, so an acquire() that
\* returns False (timeout or error) leaves them as they were
C35_FieldsAgree ==
    /\ [](\A w \in Workers : ~InLockCall(w) => FactsAgree(Proc(w)))
    /\ [](\A w \in Workers : pc[w] = "held" => acquired[Proc(w)])
    /\ [][\A w \in Workers :
            /\ (pc[w] \in AcquireLabels /\ pc[w] # "acq_store")
                 => UNCHANGED <<lockFd[Proc(w)], acquired[Proc(w)]>>
            /\ (pc[w] \in AcquireLabels /\ ~InLockCall(w)' /\ ~ret'[w])
                 => UNCHANGED <<lockFd[Proc(w)], acquired[Proc(w)]>>
            /\ (pc[w] \in ReleaseLabels /\ ~InLockCall(w)')
                 => ~acquired'[Proc(w)] /\ lockFd'[Proc(w)] = NoFd]_vars

\* one process is back from an acquire() that returned False on an error of
\* flock (its descriptor is still open), another one holds the lock
C35_Witness ==
    \E v, w \in Workers :
        /\ pc[v] = "idle" /\ openFds[Proc(v)] # {} /\ ~acquired[Proc(v)]
        /\ pc[w] = "held" /\ HoldsOsLock(Proc(w))

====
